---- MODULE Spec2Model ----
(***************************************************************************)
(* Model of the hut-availability ingestion pipeline (import.py) and of the *)
(* dashboard's reading of the dataset (streamlit_app.py).                  *)
(*                                                                         *)
(* The dataset file is a sequence of CSV lines, each line a tuple of cell  *)
(* strings; the first line is the header.  A Python file object is a       *)
(* buffer of lines not yet on disk, flushed when it fills up and on close. *)
(***************************************************************************)
EXTENDS Integers, Sequences, FiniteSets, TLC

VARIABLES
    disk,       \* historie.csv: [exists, lines]
    buf,        \* lines written to the open file object, not yet on disk
    pc,         \* position of the ingestion process
    today,      \* index of the calendar day of the current run
    hut,        \* index into HUTS of the next hut of the for loop
    runs,       \* number of runs of main() started
    preRun,     \* history: the file when the current run started
    preMig,     \* history: the file when the last rewrite started
    rewrites,   \* history: number of completed Legacy -> Current rewrites
    outcome,    \* history: per hut, what its fetch did in the current run
    fetched,    \* history: per hut, the response body of the current run
    result,     \* history: how the last run ended
    origin,     \* history: "absent" or "legacy", the initial file
    df,         \* dashboard: what load_data read (cached)
    view        \* dashboard: the rendered map and detail snapshot

vars == <<disk, buf, pc, today, hut, runs, preRun, preMig, rewrites,
          outcome, fetched, result, origin, df, view>>

----------------------------------------------------------------------------
(* Bounds *)

MaxRuns == 2
MaxDays == 1
MaxLegacyRows == 2

----------------------------------------------------------------------------
(* Program constants *)

CSV_FIELDS ==
    <<"Abrufdatum", "Huette", "Buchungsdatum", "FreiePlaetze", "Kapazität", "Status">>

HUTS ==
    << [name |-> "Franz Senn Hütte", id |-> 675],
       [name |-> "Regensburger Hütte", id |-> 275],
       [name |-> "Starkenburger Hütte", id |-> 693] >>

DEFAULT_HUT == "Franz Senn Hütte"

DEFAULT_STATUS == "SERVICED"

\* Python's None / JSON null, and what csv writes for it
None == "<None>"

\* header of a dataset written before multi-hut support
LEGACY_FIELDS ==
    <<"Abrufdatum", "Buchungsdatum", "FreiePlaetze", "Kapazität", "Status">>

\* strftime("%d-%m-%Y") of the calendar days the model distinguishes
DateStrings == <<"01-03-2025", "02-03-2025">>

LastDay == Len(DateStrings)

strftime(d) == DateStrings[d]

----------------------------------------------------------------------------
(* csv.DictReader / csv.DictWriter *)

Range(s) == {s[i] : i \in 1..Len(s)}

\* reader.fieldnames or []
fieldnames(lines) == IF lines = <<>> THEN <<>> ELSE lines[1]

\* the data lines DictReader iterates over
DataLines(lines) == IF lines = <<>> THEN <<>> ELSE Tail(lines)

\* row.get(name) of a DictReader row: missing column or short row give None
RowGet(fields, cells, name) ==
    IF \E i \in 1..Len(fields) : fields[i] = name
    THEN LET i == CHOOSE j \in 1..Len(fields) : fields[j] = name
         IN  IF i <= Len(cells) THEN cells[i] ELSE None
    ELSE None

\* DictWriter.writerow: cells in CSV_FIELDS order, None written as ""
writerow(row) ==
    [i \in 1..Len(CSV_FIELDS) |->
        IF row[CSV_FIELDS[i]] = None THEN "" ELSE row[CSV_FIELDS[i]]]

\* DictWriter.writeheader
writeheader == CSV_FIELDS

----------------------------------------------------------------------------
(* ensure_csv_schema *)

isfile(f) == f.exists

\* mutant: the header test looks for a column the header never has
HasHuette_wrong_column(lines) == "Hut" \in Range(fieldnames(lines))

\* the header test of the migrator
HasHuette(lines) == "Huette" \in Range(fieldnames(lines))

IsLegacy(f) == isfile(f) /\ ~HasHuette(f.lines)

IsCurrent(f) == ~IsLegacy(f)

\* mutant: Huette is taken from the legacy row instead of the default name
MigratedRow_no_backfill(fields, cells) ==
    [k \in Range(CSV_FIELDS) |-> RowGet(fields, cells, k)]

MigratedRow(fields, cells) ==
    [k \in Range(CSV_FIELDS) |->
        IF k = "Huette" THEN DEFAULT_HUT ELSE RowGet(fields, cells, k)]

\* the lines the migrator writes for a legacy file
MigratedLines(lines) ==
    <<writeheader>> \o
    [i \in 1..Len(DataLines(lines)) |->
        writerow(MigratedRow(fieldnames(lines), DataLines(lines)[i]))]

\* the file a complete call of ensure_csv_schema leaves
ensure_csv_schema(f) ==
    IF IsLegacy(f) THEN [exists |-> TRUE, lines |-> MigratedLines(f.lines)] ELSE f

----------------------------------------------------------------------------
(* Row normalisation, main lines 76-85 *)

\* mutant: dict.get without its default
DictGet_no_default(day, key, default) == IF key \in DOMAIN day THEN day[key] ELSE None

DictGet(day, key, default) == IF key \in DOMAIN day THEN day[key] ELSE default

WellFormed(day) == "dateFormatted" \in DOMAIN day /\ "freeBeds" \in DOMAIN day

NormalizedRow(h, d, day) ==
    [k \in Range(CSV_FIELDS) |->
        CASE k = "Abrufdatum" -> strftime(d)
          [] k = "Huette" -> HUTS[h].name
          [] k = "Buchungsdatum" -> day["dateFormatted"]
          [] k = "FreiePlaetze" -> day["freeBeds"]
          [] k = "Kapazität" -> DictGet(day, "totalSleepingPlaces", day["freeBeds"])
          [] k = "Status" -> DictGet(day, "hutStatus", DEFAULT_STATUS)]

\* number of leading day-records written before the first KeyError
RECURSIVE GoodPrefixLen(_)
GoodPrefixLen(data) ==
    IF data = <<>> \/ ~WellFormed(Head(data)) THEN 0
    ELSE 1 + GoodPrefixLen(Tail(data))

RowsOf(h, d, data) ==
    [i \in 1..GoodPrefixLen(data) |-> writerow(NormalizedRow(h, d, data[i]))]

AllWellFormed(data) == GoodPrefixLen(data) = Len(data)

----------------------------------------------------------------------------
(* Inputs *)

BuchDate(i) == DateStrings[i]

\* upstream day-records of the ingestion specification
IngestDays ==
    { [dateFormatted |-> BuchDate(2), freeBeds |-> "12"],
      [dateFormatted |-> BuchDate(2)] }

\* response bodies of at most MaxDays records over a catalogue
RECURSIVE SeqsUpTo(_, _)
SeqsUpTo(S, n) ==
    IF n = 0 THEN {<<>>}
    ELSE LET shorter == SeqsUpTo(S, n - 1)
         IN  shorter \cup {Append(s, x) : s \in {t \in shorter : Len(t) = n - 1}, x \in S}

Responses(cat) == SeqsUpTo(cat, MaxDays) \ {<<>>}

\* the i-th data line of a legacy dataset (i free beds)
LegacyLine(i) == <<DateStrings[1], BuchDate(2), ToString(i), "9", "SERVICED">>

LegacyFile(n) ==
    [exists |-> TRUE, lines |-> <<LEGACY_FIELDS>> \o [i \in 1..n |-> LegacyLine(i)]]

AbsentFile == [exists |-> FALSE, lines |-> <<>>]

NoOutcome == [h \in 1..Len(HUTS) |-> "none"]
NoFetched == [h \in 1..Len(HUTS) |-> <<>>]
NotLoaded ==
    [state |-> "not_loaded", rows |-> <<>>, raw |-> AbsentFile, at |-> "idle",
     pre |-> AbsentFile]
NoView == [state |-> "none"]

----------------------------------------------------------------------------
(* Ingestion process *)

Init ==
    /\ disk \in {AbsentFile} \cup {LegacyFile(n) : n \in 0..MaxLegacyRows}
    /\ origin = IF disk.exists THEN "legacy" ELSE "absent"
    /\ buf = <<>>
    /\ pc = "idle"
    /\ today = 1
    /\ hut = 1
    /\ runs = 0
    /\ preRun = disk
    /\ preMig = disk
    /\ rewrites = 0
    /\ outcome = NoOutcome
    /\ fetched = NoFetched
    /\ result = "none"
    /\ df = NotLoaded
    /\ view = NoView

\* the scheduler starts main()
main_start ==
    /\ pc = "idle"
    /\ runs < MaxRuns
    /\ runs' = runs + 1
    /\ pc' = "ensure"
    /\ preRun' = disk
    /\ outcome' = NoOutcome
    /\ fetched' = NoFetched
    /\ result' = "running"
    /\ UNCHANGED <<disk, buf, today, hut, preMig, rewrites, origin, df, view>>

\* ensure_csv_schema lines 21-28: absent file or header with Huette
ensure_csv_schema_current ==
    /\ pc = "ensure"
    /\ IsCurrent(disk)
    /\ pc' = "open"
    /\ UNCHANGED <<disk, buf, today, hut, runs, preRun, preMig, rewrites,
                   outcome, fetched, result, origin, df, view>>

\* ensure_csv_schema lines 24-29 raise: the file cannot be read or parsed
ensure_csv_schema_read_error ==
    /\ pc = "ensure"
    /\ isfile(disk)
    /\ pc' = "idle"
    /\ result' = "migration_error"
    /\ UNCHANGED <<disk, buf, today, hut, runs, preRun, preMig, rewrites,
                   outcome, fetched, origin, df, view>>

\* ensure_csv_schema lines 24-47 up to the writes: rows read, open(.., "w")
\* truncates the file, header and rows go to the file object
ensure_csv_schema_rewrite ==
    /\ pc = "ensure"
    /\ IsLegacy(disk)
    /\ preMig' = disk
    /\ disk' = [exists |-> TRUE, lines |-> <<>>]
    /\ buf' = MigratedLines(disk.lines)
    /\ pc' = "mig_write"
    /\ UNCHANGED <<today, hut, runs, preRun, rewrites, outcome, fetched,
                   result, origin, df, view>>

\* the file object of line 44 fills up and writes its oldest line to disk
\* (the append of line 62 keeps its lines until close: the file a run leaves
\* is disk \o buf whenever the lines reach the disk)
flush ==
    /\ pc = "mig_write"
    /\ buf # <<>>
    /\ disk' = [disk EXCEPT !.lines = Append(@, Head(buf))]
    /\ buf' = Tail(buf)
    /\ UNCHANGED <<pc, today, hut, runs, preRun, preMig, rewrites, outcome,
                   fetched, result, origin, df, view>>

\* end of the with block of line 44: close flushes the rest
ensure_csv_schema_close ==
    /\ pc = "mig_write"
    /\ disk' = [disk EXCEPT !.lines = @ \o buf]
    /\ buf' = <<>>
    /\ rewrites' = rewrites + 1
    /\ pc' = "open"
    /\ UNCHANGED <<today, hut, runs, preRun, preMig, outcome, fetched,
                   result, origin, df, view>>

\* a write of lines 46-47 or the close raises OSError: the buffered lines
\* are lost and the exception leaves main
ensure_csv_schema_write_error ==
    /\ pc = "mig_write"
    /\ buf # <<>>
    /\ buf' = <<>>
    /\ pc' = "idle"
    /\ result' = "migration_error"
    /\ UNCHANGED <<disk, today, hut, runs, preRun, preMig, rewrites, outcome,
                   fetched, origin, df, view>>

\* mutant: the header is written on every run, whatever file_exists says
main_open_always_header ==
    /\ pc = "open"
    /\ \E d \in today..LastDay : today' = d
    /\ disk' = [disk EXCEPT !.exists = TRUE]
    /\ buf' = <<writeheader>>
    /\ hut' = 1
    /\ pc' = "fetch"
    /\ UNCHANGED <<runs, preRun, preMig, rewrites, outcome, fetched, result,
                   origin, df, view>>

\* mutant: the file is opened with mode "w" instead of "a"
main_open_truncating ==
    /\ pc = "open"
    /\ \E d \in today..LastDay : today' = d
    /\ disk' = [exists |-> TRUE, lines |-> <<>>]
    /\ buf' = IF ~isfile(disk) THEN <<writeheader>> ELSE <<>>
    /\ hut' = 1
    /\ pc' = "fetch"
    /\ UNCHANGED <<runs, preRun, preMig, rewrites, outcome, fetched, result,
                   origin, df, view>>

\* main lines 59-66: today, file_exists, open(.., "a"), header if new
main_open ==
    /\ pc = "open"
    /\ \E d \in today..LastDay : today' = d
    /\ disk' = [disk EXCEPT !.exists = TRUE]
    /\ buf' = IF ~isfile(disk) THEN <<writeheader>> ELSE <<>>
    /\ hut' = 1
    /\ pc' = "fetch"
    /\ UNCHANGED <<runs, preRun, preMig, rewrites, outcome, fetched, result,
                   origin, df, view>>

\* mutant: the RequestException is not caught and ends main
fetch_failed_fatal ==
    /\ pc = "fetch"
    /\ hut <= Len(HUTS)
    /\ outcome' = [outcome EXCEPT ![hut] = "failed"]
    /\ disk' = [disk EXCEPT !.lines = @ \o buf]
    /\ buf' = <<>>
    /\ pc' = "idle"
    /\ result' = "request_exception"
    /\ UNCHANGED <<today, hut, runs, preRun, preMig, rewrites, fetched,
                   origin, df, view>>

\* main lines 69-73: fetch_availability raises RequestException
fetch_failed ==
    /\ pc = "fetch"
    /\ hut <= Len(HUTS)
    /\ outcome' = [outcome EXCEPT ![hut] = "failed"]
    /\ hut' = hut + 1
    /\ UNCHANGED <<disk, buf, pc, today, runs, preRun, preMig, rewrites,
                   fetched, result, origin, df, view>>

\* main lines 70, 75-85: the fetch returns data and every record is written
fetch_rows(cat) ==
    /\ pc = "fetch"
    /\ hut <= Len(HUTS)
    /\ \E data \in Responses(cat) :
          /\ AllWellFormed(data)
          /\ fetched' = [fetched EXCEPT ![hut] = data]
          /\ buf' = buf \o RowsOf(hut, today, data)
    /\ outcome' = [outcome EXCEPT ![hut] = "ok"]
    /\ hut' = hut + 1
    /\ UNCHANGED <<disk, pc, today, runs, preRun, preMig, rewrites, result,
                   origin, df, view>>

\* main lines 70, 75-85: a record lacks dateFormatted or freeBeds; the
\* KeyError leaves the loops and main, the with block closes the file
fetch_key_error(cat) ==
    /\ pc = "fetch"
    /\ hut <= Len(HUTS)
    /\ \E data \in Responses(cat) :
          /\ ~AllWellFormed(data)
          /\ fetched' = [fetched EXCEPT ![hut] = data]
          /\ disk' = [disk EXCEPT !.lines = @ \o buf \o RowsOf(hut, today, data)]
    /\ buf' = <<>>
    /\ outcome' = [outcome EXCEPT ![hut] = "key_error"]
    /\ pc' = "idle"
    /\ result' = "key_error"
    /\ UNCHANGED <<today, hut, runs, preRun, preMig, rewrites, origin, df, view>>

\* end of the for loop and of the with block of line 62
main_close ==
    /\ pc = "fetch"
    /\ hut > Len(HUTS)
    /\ disk' = [disk EXCEPT !.lines = @ \o buf]
    /\ buf' = <<>>
    /\ pc' = "idle"
    /\ result' = "ok"
    /\ UNCHANGED <<today, hut, runs, preRun, preMig, rewrites, outcome,
                   fetched, origin, df, view>>

----------------------------------------------------------------------------
(* Dashboard: load_data *)

HUT_COORDS == <<"Franz Senn Hütte", "Regensburger Hütte", "Starkenburger Hütte">>

\* pd.to_datetime(.., dayfirst=True, errors="coerce"): the day index, 0 is NaT
to_datetime(s) ==
    IF \E d \in 1..Len(DateStrings) : DateStrings[d] = s
    THEN CHOOSE d \in 1..Len(DateStrings) : DateStrings[d] = s
    ELSE 0

\* pd.to_numeric(.., errors="coerce"): -1 is NaN
to_numeric(s) ==
    CASE s = "0" -> 0
      [] s = "1" -> 1
      [] s = "2" -> 2
      [] s = "3" -> 3
      [] s = "9" -> 9
      [] s = "12" -> 12
      [] s = "40" -> 40
      [] OTHER -> -1

notna(n) == n # -1

\* str.upper() of the status values
upper(s) ==
    CASE s = "closed" -> "CLOSED"
      [] s = "serviced" -> "SERVICED"
      [] OTHER -> s

\* one row of the DataFrame of load_data, lines 37-41
FrameRow(columns, cells) ==
    [ Abrufdatum |-> to_datetime(RowGet(columns, cells, "Abrufdatum")),
      Huette |-> IF "Huette" \in Range(columns)
                 THEN RowGet(columns, cells, "Huette") ELSE DEFAULT_HUT,
      Buchungsdatum |-> to_datetime(RowGet(columns, cells, "Buchungsdatum")),
      FreiePlaetze |-> RowGet(columns, cells, "FreiePlaetze"),
      Kapazitaet |-> RowGet(columns, cells, "Kapazität"),
      Status |-> RowGet(columns, cells, "Status") ]

DatesParsed(r) == r.Abrufdatum # 0 /\ r.Buchungsdatum # 0

\* the rows load_data returns for a file with a header line
FrameRows(lines) ==
    SelectSeq([i \in 1..Len(DataLines(lines)) |->
                  FrameRow(fieldnames(lines), DataLines(lines)[i])],
              DatesParsed)

\* load_data on the file f: FileNotFoundError is caught, pandas'
\* EmptyDataError for a file of zero bytes is not
LoadState(f) ==
    IF ~isfile(f) THEN "not_found"
    ELSE IF f.lines = <<>> THEN "empty_data_error"
    ELSE IF DataLines(f.lines) = <<>> THEN "empty"
    ELSE "loaded"

\* load_data lines 25-43 on the file f, with what the ingestion was doing
load_data(f) ==
    [state |-> LoadState(f),
     rows |-> IF LoadState(f) = "loaded" THEN FrameRows(f.lines) ELSE <<>>,
     raw |-> f,
     at |-> pc,
     pre |-> preMig]

----------------------------------------------------------------------------
(* Dashboard: get_map_data and the detail view *)

RECURSIVE MaxAbrufdatum(_)
\* .max() of the Abrufdatum column, NaT (0) for no rows
MaxAbrufdatum(rows) ==
    IF rows = <<>> THEN 0
    ELSE LET m == MaxAbrufdatum(Tail(rows))
         IN  IF Head(rows).Abrufdatum > m THEN Head(rows).Abrufdatum ELSE m

NotClosed(r) == upper(r.Status) # "CLOSED"

NumericFree(r) == notna(to_numeric(r.FreiePlaetze))

\* the first row with the smallest Buchungsdatum (sort_values, then iloc[0])
FirstByBuchungsdatum(rows) ==
    rows[CHOOSE i \in 1..Len(rows) :
            \A j \in 1..Len(rows) :
               \/ rows[i].Buchungsdatum < rows[j].Buchungsdatum
               \/ rows[i].Buchungsdatum = rows[j].Buchungsdatum /\ i <= j]

\* get_map_data lines 97-118 for one hut: the snapshot the label rests on
MapEntry(rows, name, now) ==
    LET InHut(r) == r.Huette = name /\ NotClosed(r)
        hut_df == SelectSeq(rows, InHut)
        numeric == SelectSeq(hut_df, NumericFree)
        latest_snapshot == MaxAbrufdatum(numeric)
        InSnapshot(r) == r.Abrufdatum = latest_snapshot
        snapshot_df == SelectSeq(numeric, InSnapshot)
        IsToday(r) == r.Buchungsdatum = now
        today_match == SelectSeq(snapshot_df, IsToday)
        IsNext(r) == r.Buchungsdatum >= now
        next_match == SelectSeq(snapshot_df, IsNext)
    IN  IF hut_df = <<>>
        THEN [text |-> "keine Daten", free |-> -1, snapshot |-> 0, used |-> <<>>]
        ELSE IF today_match # <<>>
        THEN [text |-> "frei heute",
              free |-> to_numeric(today_match[1].FreiePlaetze),
              snapshot |-> latest_snapshot, used |-> snapshot_df]
        ELSE IF next_match = <<>>
        THEN [text |-> "keine aktuellen Daten", free |-> -1,
              snapshot |-> latest_snapshot, used |-> snapshot_df]
        ELSE [text |-> "frei (Datum)",
              free |-> to_numeric(FirstByBuchungsdatum(next_match).FreiePlaetze),
              snapshot |-> latest_snapshot, used |-> snapshot_df]

get_map_data(rows, now) ==
    [h \in 1..Len(HUT_COORDS) |-> MapEntry(rows, HUT_COORDS[h], now)]

\* lines 185-191: the detail table of the selected hut
Detail(rows, selected) ==
    LET OfHut(r) == r.Huette = selected
        hut_df == SelectSeq(rows, OfHut)
        latest_date == MaxAbrufdatum(hut_df)
        IsLatest(r) == r.Abrufdatum = latest_date /\ NotClosed(r) /\ NumericFree(r)
    IN  [latest_date |-> latest_date, latest_df |-> SelectSeq(hut_df, IsLatest)]

\* the huts the selectbox of line 183 offers
Selectable(rows) == {rows[i].Huette : i \in 1..Len(rows)}

\* lines 181-191 on the frame: the map, and the detail table for each hut
\* the user can select
Rendered(frame, now) ==
    [state |-> "rendered",
     map |-> get_map_data(frame.rows, now),
     detail |-> [h \in 1..Len(HUT_COORDS) |->
                    IF HUT_COORDS[h] \in Selectable(frame.rows)
                    THEN Detail(frame.rows, HUT_COORDS[h])
                    ELSE [latest_date |-> 0, latest_df |-> <<>>]]]

\* one run of the dashboard script, lines 177-191, at any moment of the
\* ingestion: load_data reads the file on the first run and st.cache_data
\* returns that frame on every later one; an empty frame stops the script
dashboard_run ==
    /\ \E now \in today..LastDay :
          LET frame == IF df = NotLoaded THEN load_data(disk) ELSE df
          IN  /\ df' = frame
              /\ view' = IF frame.state = "loaded" /\ frame.rows # <<>>
                         THEN Rendered(frame, now)
                         ELSE [state |-> "stopped"]
    /\ UNCHANGED <<disk, buf, pc, today, hut, runs, preRun, preMig, rewrites,
                   outcome, fetched, result, origin>>

----------------------------------------------------------------------------
(* Specifications *)

Ingest(cat) ==
    \/ main_start
    \/ ensure_csv_schema_current
    \/ ensure_csv_schema_read_error
    \/ ensure_csv_schema_rewrite
    \/ flush
    \/ ensure_csv_schema_close
    \/ ensure_csv_schema_write_error
    \/ main_open
    \/ fetch_failed
    \/ fetch_rows(cat)
    \/ fetch_key_error(cat)
    \/ main_close

Next == Ingest(IngestDays)

Spec == Init /\ [][Next]_vars

\* upstream day-records of the dashboard specification
DashDays ==
    { [dateFormatted |-> BuchDate(2), freeBeds |-> "12"],
      [dateFormatted |-> BuchDate(2), freeBeds |-> None, hutStatus |-> "CLOSED"] }

\* the ingestion without I/O errors and malformed records, and the dashboard
NextDash ==
    \/ main_start
    \/ ensure_csv_schema_current
    \/ ensure_csv_schema_rewrite
    \/ flush
    \/ ensure_csv_schema_close
    \/ main_open
    \/ fetch_failed
    \/ fetch_rows(DashDays)
    \/ main_close
    \/ dashboard_run

SpecDash == Init /\ [][NextDash]_vars

\* upstream day-records of the normalisation specification: each optional
\* field absent, present, and present with JSON null
NormDays ==
    { [dateFormatted |-> BuchDate(2), freeBeds |-> "12"],
      [dateFormatted |-> BuchDate(2), freeBeds |-> "12", totalSleepingPlaces |-> "40"],
      [dateFormatted |-> BuchDate(2), freeBeds |-> "12", hutStatus |-> "CLOSED"],
      [dateFormatted |-> BuchDate(2), freeBeds |-> "12", totalSleepingPlaces |-> "40",
       hutStatus |-> "SERVICED"],
      [dateFormatted |-> BuchDate(2), freeBeds |-> "12", hutStatus |-> None],
      [dateFormatted |-> BuchDate(2), freeBeds |-> None] }

\* a first run of main() that has just created the dataset file (the state
\* after main_start, ensure_csv_schema_current and main_open from no file)
InitNorm ==
    /\ disk = [exists |-> TRUE, lines |-> <<>>]
    /\ origin = "absent"
    /\ buf = <<writeheader>>
    /\ pc = "fetch"
    /\ today \in 1..LastDay
    /\ hut = 1
    /\ runs = 1
    /\ preRun = AbsentFile
    /\ preMig = AbsentFile
    /\ rewrites = 0
    /\ outcome = NoOutcome
    /\ fetched = NoFetched
    /\ result = "running"
    /\ df = NotLoaded
    /\ view = NoView

\* one pass over the registry, every response drawn from NormDays
NextNorm ==
    \/ fetch_failed
    \/ fetch_rows(NormDays)
    \/ main_close

SpecNorm == InitNorm /\ [][NextNorm]_vars

----------------------------------------------------------------------------
(* Reading the file back for the properties *)

Rows(f) == DataLines(f.lines)

\* the value of column k in data row i of a file
Cell(f, i, k) == RowGet(fieldnames(f.lines), Rows(f)[i], k)

HeaderPositions(f) == {i \in 1..Len(f.lines) : f.lines[i] = CSV_FIELDS}

\* the data rows the current run has added to the file
NewRows == SubSeq(Rows(disk), Len(Rows(preRun)) + 1, Len(Rows(disk)))

NewRowsOf(h) ==
    LET IsOfHut(line) == RowGet(CSV_FIELDS, line, "Huette") = HUTS[h].name
    IN  SelectSeq(NewRows, IsOfHut)

RunEnded == pc = "idle" /\ runs >= 1

----------------------------------------------------------------------------
(* Properties of the ingestion pipeline, checked under Spec *)

\* C1 (header-once): after N >= 1 runs of main() that started from an absent
\* dataset file, whatever the fetches did, the file has exactly one header
\* line and it is the first line.
C1_HeaderOnce ==
    (origin = "absent" /\ RunEnded) =>
        /\ disk.exists
        /\ HeaderPositions(disk) = {1}

C1_Witness ==
    /\ origin = "absent" /\ RunEnded /\ runs = MaxRuns
    /\ Len(Rows(preRun)) >= 1
    /\ Len(Rows(disk)) > Len(Rows(preRun))

C3_MigrationBackfill ==
    (pc = "open" /\ IsLegacy(preRun)) =>
        /\ fieldnames(disk.lines) =
              <<"Abrufdatum", "Huette", "Buchungsdatum", "FreiePlaetze",
                "Kapazität", "Status">>
        /\ Len(Rows(disk)) = Len(Rows(preRun))
        /\ \A i \in 1..Len(Rows(preRun)) :
              /\ Len(Rows(disk)[i]) = 6
              /\ Cell(disk, i, "Huette") = "Franz Senn Hütte"
              /\ \A k \in {"Abrufdatum", "Buchungsdatum", "FreiePlaetze",
                            "Kapazität", "Status"} :
                    Cell(disk, i, k) = Cell(preRun, i, k)

C3_Witness ==
    /\ pc = "open" /\ IsLegacy(preRun)
    /\ Len(Rows(preRun)) >= 2
    /\ rewrites = 1

\* C4 (idempotent migration): the file ensure_csv_schema leaves is one a
\* second call leaves unchanged, and equals the result of one call on the
\* file the run found; a call on a Current file (absent, or header with
\* Huette) writes nothing; and over any sequence of runs at most one
\* Legacy -> Current rewrite is completed.
C4_IdempotentMigration ==
    /\ [](pc = "open" =>
            /\ ensure_csv_schema(disk) = disk
            /\ disk = ensure_csv_schema(preRun))
    /\ [][(pc = "ensure" /\ IsCurrent(disk)) =>
            (disk' = disk /\ buf' = buf /\ rewrites' = rewrites)]_vars
    /\ [](rewrites <= 1)

C4_Witness ==
    /\ runs = MaxRuns /\ pc = "open"
    /\ rewrites = 1
    /\ origin = "legacy"
    /\ Len(Rows(disk)) > MaxLegacyRows

\* C5 (partial-failure isolation): at the end of a pass, a hut whose fetch
\* raised a fetch error has no new row, a hut whose fetch succeeded has one
\* new row per day-record of its response, in order, and a pass in which
\* fetch errors are the only faults completes successfully after visiting
\* every hut, whichever huts failed.
C5_PartialFailureIsolation ==
    (RunEnded /\ result # "migration_error") =>
        /\ \A h \in 1..Len(HUTS) :
              /\ outcome[h] = "failed" => NewRowsOf(h) = <<>>
              /\ outcome[h] = "ok" =>
                    /\ Len(NewRowsOf(h)) = Len(fetched[h])
                    /\ \A i \in 1..Len(fetched[h]) :
                          /\ RowGet(CSV_FIELDS, NewRowsOf(h)[i], "Buchungsdatum")
                                = fetched[h][i]["dateFormatted"]
                          /\ RowGet(CSV_FIELDS, NewRowsOf(h)[i], "FreiePlaetze")
                                = fetched[h][i]["freeBeds"]
        /\ (\A h \in 1..Len(HUTS) : outcome[h] # "key_error") =>
              /\ result = "ok"
              /\ \A h \in 1..Len(HUTS) : outcome[h] \in {"failed", "ok"}

\* three huts, the fetch of hut 2 fails
C5_Witness ==
    /\ RunEnded /\ result = "ok"
    /\ outcome = <<"ok", "failed", "ok">>
    /\ Len(NewRows) = 2

\* C8 (malformed-record isolation): a day-record without freeBeds or
\* dateFormatted affects at most its own hut's batch: the pass still goes
\* on to every later hut of the registry.
C8_MalformedRecordIsolation ==
    (RunEnded /\ result # "migration_error") =>
        \A h \in 1..Len(HUTS) : outcome[h] # "none"

\* C9 (fatal migration failure): when the migrator fails, the run ends with
\* nothing appended and the file holds its complete pre-migration content.
C9_FatalMigrationFailure ==
    (RunEnded /\ result = "migration_error") =>
        /\ disk = preRun
        /\ buf = <<>>

----------------------------------------------------------------------------
(* Properties of the row normalisation, checked under SpecNorm *)

\* what the csv writer puts in the file for a value
Written(v) == IF v = None THEN "" ELSE v

\* day-record i of hut h's response and the row appended for it
DayOf(h, i) == fetched[h][i]
RowOf(h, i) == NewRowsOf(h)[i]

Defaulted(h, i) ==
    /\ RowGet(CSV_FIELDS, RowOf(h, i), "FreiePlaetze") = Written(DayOf(h, i)["freeBeds"])
    /\ RowGet(CSV_FIELDS, RowOf(h, i), "Kapazität") =
          IF "totalSleepingPlaces" \in DOMAIN DayOf(h, i)
          THEN Written(DayOf(h, i)["totalSleepingPlaces"])
          ELSE Written(DayOf(h, i)["freeBeds"])
    /\ RowGet(CSV_FIELDS, RowOf(h, i), "Status") =
          IF "hutStatus" \in DOMAIN DayOf(h, i)
          THEN Written(DayOf(h, i)["hutStatus"])
          ELSE "SERVICED"

StatusNotNull(h, i) == RowGet(CSV_FIELDS, RowOf(h, i), "Status") \notin {"", None}

\* C6 as claimed (defaulting correctness): every appended row has
\* FreiePlaetze = freeBeds, Kapazität = totalSleepingPlaces if present else
\* freeBeds, Status = hutStatus if present else "SERVICED", and therefore a
\* Status that is never null.
C6_DefaultingAsClaimed ==
    (RunEnded /\ result = "ok") =>
        \A h \in 1..Len(HUTS) : outcome[h] = "ok" =>
            /\ Len(NewRowsOf(h)) = Len(fetched[h])
            /\ \A i \in 1..Len(fetched[h]) : Defaulted(h, i) /\ StatusNotNull(h, i)

\* C6 amended: the three field rules hold for every appended row, and Status
\* is not null in the row of any record whose hutStatus is absent or present
\* with a value other than JSON null (a null hutStatus is written through as
\* an empty Status).
C6_DefaultingCorrectness ==
    (RunEnded /\ result = "ok") =>
        \A h \in 1..Len(HUTS) : outcome[h] = "ok" =>
            /\ Len(NewRowsOf(h)) = Len(fetched[h])
            /\ \A i \in 1..Len(fetched[h]) :
                  /\ Defaulted(h, i)
                  /\ DictGet(DayOf(h, i), "hutStatus", "absent") # None
                        => StatusNotNull(h, i)

\* the spec's example: a record with neither totalSleepingPlaces nor
\* hutStatus was appended with Kapazität 12 and Status SERVICED
C6_Witness ==
    /\ RunEnded /\ result = "ok"
    /\ outcome[1] = "ok"
    /\ DOMAIN fetched[1][1] = {"dateFormatted", "freeBeds"}
    /\ fetched[1][1]["freeBeds"] = "12"
    /\ RowGet(CSV_FIELDS, NewRowsOf(1)[1], "Kapazität") = "12"
    /\ RowGet(CSV_FIELDS, NewRowsOf(1)[1], "Status") = "SERVICED"

----------------------------------------------------------------------------
(* Properties of the dashboard's reads, checked under SpecDash *)

\* C7 (atomic migration): a dashboard that reads the dataset file while the
\* Legacy -> Current rewrite is in progress sees the complete legacy file
\* or the complete migrated file.
C7_AtomicMigration ==
    (df # NotLoaded /\ df.at = "mig_write") =>
        df.raw \in {df.pre, ensure_csv_schema(df.pre)}

\* all rows of the loaded dataset that belong to a hut
DatasetRowsOf(name) ==
    LET OfHut(r) == r.Huette = name
    IN  SelectSeq(df.rows, OfHut)

AllFrom(rows, snapshot) == \A i \in 1..Len(rows) : rows[i].Abrufdatum = snapshot

\* C10 (latest-snapshot read): for every hut, the rows behind the map label
\* and the rows of the detail table all have the maximum Abrufdatum among
\* the hut's rows in the dataset, so both views use the same snapshot.
C10_LatestSnapshotRead ==
    view.state = "rendered" =>
        \A h \in 1..Len(HUT_COORDS) :
            LET latest == MaxAbrufdatum(DatasetRowsOf(HUT_COORDS[h]))
            IN  /\ AllFrom(view.map[h].used, latest)
                /\ AllFrom(view.detail[h].latest_df, latest)
                /\ view.map[h].used # <<>> =>
                      view.map[h].snapshot = view.detail[h].latest_date

====
